---- MODULE Spec2Model ----
(***************************************************************************)
(* Model of optimization/policy.py: class Policy (construction of the      *)
(* TensorFlow graph, and update: the control-variate epochs, the policy    *)
(* epochs with the KL early stop, and the adaptive KL penalty).            *)
(*                                                                         *)
(* Numbers.  beta and lr_multiplier are floats that the code only ever     *)
(* multiplies or divides by 1.5 and clips; they are modelled as exact      *)
(* fractions <<numerator, denominator>> in lowest terms.  No comparison    *)
(* the code makes on them is ever an equality in exact arithmetic (35, 30, *)
(* 1/30, 1/35, 0.1 and 10 are not of the form 1.5^k, 35*1.5^k or           *)
(* 1.5^k/35), so float rounding cannot change a branch.  KL values and     *)
(* kl_targ are integers in one common unit.                                *)
(***************************************************************************)
EXTENDS Integers, Sequences, FiniteSets

\* ------------------------------------------------------------------ bounds

\* largest epochs / phi_epochs a Policy is constructed with
MaxEpochs == 2
MaxPhiEpochs == 2
\* largest act_dim, obs_dim, hid1_mult a Policy is constructed with
MaxActDim == 5
MaxObsDim == 2
MaxHid1Mult == 2

\* --------------------------------------------------------------- fractions

RECURSIVE Gcd(_, _)
Gcd(a, b) == IF b = 0 THEN a ELSE Gcd(b, a % b)

Abs(x) == IF x < 0 THEN -x ELSE x

\* the fraction n/d (d > 0) in lowest terms
Frac(n, d) == LET g == Gcd(Abs(n), d) IN <<n \div g, d \div g>>

\* products are taken after cancelling common factors, so that they stay small
FMul(q, r) ==
    LET g == Gcd(Abs(q[1]), r[2])
        h == Gcd(Abs(r[1]), q[2])
    IN Frac((q[1] \div g) * (r[1] \div h), (q[2] \div h) * (r[2] \div g))
FDiv(q, r) == FMul(q, <<r[2], r[1]>>)
FLess(q, r) ==
    LET g == IF q[1] = 0 \/ r[1] = 0 THEN 1 ELSE Gcd(Abs(q[1]), Abs(r[1]))
        h == Gcd(q[2], r[2])
    IN (q[1] \div g) * (r[2] \div h) < (r[1] \div g) * (q[2] \div h)
FLeq(q, r) == ~FLess(r, q)
\* np.minimum / np.maximum on two scalars
FMin(q, r) == IF FLess(q, r) THEN q ELSE r
FMax(q, r) == IF FLess(q, r) THEN r ELSE q

\* ------------------------------------------------------------------ inputs

PolicySizes == {"small", "large", "medium"}
PhiObjs == {"FitQ", "MinVar", "Other"}
\* c_ph: whether the control variate is used
CPhs == {0, 1}
\* abstract values of a set of trainable weights
ParamVals == {0, 1}
\* KL values a measurement can return, in the unit in which kl_targ = 2:
\* below kl_targ/2, equal to it, equal to 2*kl_targ, above it, equal to
\* 4*kl_targ, above it
KlTargs == {2}
KLVals == {0, 1, 4, 5, 8, 9}
\* what one sess.run([self.loss, self.kl, self.entropy]) can return: every KL
\* value, and losses and entropies that differ from each other and from it
Measurements == {<<-3, k, 6>> : k \in KLVals} \cup {<<3, 0, 7>>, <<3, 9, 7>>}

VARIABLES
    pc,              \* "new", "failed", "ready", "phi", "policy", "adapt", "done"
    cfg,             \* the constructor's arguments
    beta,            \* self.beta
    eta,             \* self.eta
    kl_targ,         \* self.kl_targ
    lr_multiplier,   \* self.lr_multiplier
    graph,           \* what _build_graph built: layer sizes, logvar rows, phi_train_op
    policy_nn_vars,  \* the policy network's trainable variables
    phi_nn_vars,     \* the control variate's trainable variables
    use_lr_adjust,   \* update's arguments
    ada_kl_penalty,
    feed_dict,       \* update's feed_dict, with the old-policy snapshot
    loss, kl, entropy,  \* update's locals
    i,               \* policy epochs executed in this call
    j,               \* phi epochs executed in this call
    exit,            \* how the policy loop was left: "none", "break", "exhausted"
    ret,             \* what update returned
    metrics,         \* what update handed to logger.record_dicts
    surr             \* the tensors of the surrogate loss and its value loss1

vars == <<pc, cfg, beta, eta, kl_targ, lr_multiplier, graph, policy_nn_vars,
          phi_nn_vars, use_lr_adjust, ada_kl_penalty, feed_dict, loss, kl,
          entropy, i, j, exit, ret, metrics, surr>>

selfVars == <<beta, eta, kl_targ, lr_multiplier>>
callVars == <<use_lr_adjust, ada_kl_penalty, feed_dict, loss, kl, entropy,
              i, j, exit, ret, metrics>>

\* ------------------------------------------------------------ construction

\* int(np.sqrt(x))
ISqrt(x) == CHOOSE r \in 0..x : r * r <= x /\ (r + 1) * (r + 1) > x

\* _policy_nn: the hidden layer sizes; raised where it raises NotImplementedError
HidSizes(c) ==
    IF c.policy_size = "small"
    THEN [raised |-> FALSE,
          hid1_size |-> c.obs_dim,
          hid3_size |-> c.act_dim,
          hid2_size |-> ISqrt(c.obs_dim * c.act_dim)]
    ELSE IF c.policy_size = "large"
    THEN [raised |-> FALSE,
          hid1_size |-> c.obs_dim * c.hid1_mult,
          hid3_size |-> c.act_dim * 10,
          hid2_size |-> ISqrt((c.obs_dim * c.hid1_mult) * (c.act_dim * 10))]
    ELSE [raised |-> TRUE, hid1_size |-> 0, hid3_size |-> 0, hid2_size |-> 0]

\* _policy_nn: the number of rows of the 'logvars' variable
LogvarSpeed(hid3_size) == (10 * hid3_size) \div 48

\* a bug: an unknown phi_obj falls through to MinVar
PhiTrainOpDefault(c) ==
    IF c.c_ph = 1 THEN "minimize"
    ELSE IF c.c_ph = 0 THEN "no_op" ELSE "unset"

\* _loss_train_op: the op that trains phi; "raise" where it raises
\* NotImplementedError, "unset" where no branch assigns self.phi_train_op
PhiTrainOp(c) ==
    IF c.c_ph = 1
    THEN IF c.phi_obj = "FitQ" \/ c.phi_obj = "MinVar"
         THEN "minimize"
         ELSE "raise"
    ELSE IF c.c_ph = 0 THEN "no_op" ELSE "unset"

\* no graph built (yet)
NoGraph == [raised |-> FALSE, hid1_size |-> 0, hid2_size |-> 0, hid3_size |-> 0,
            logvar_speed |-> 0, phi_train_op |-> "unset"]

\* _build_graph: _policy_nn, then _loss_train_op; raised where one of them raises
BuildGraph(c) ==
    IF HidSizes(c).raised
    THEN [NoGraph EXCEPT !.raised = TRUE]
    ELSE [raised |-> PhiTrainOp(c) = "raise",
          hid1_size |-> HidSizes(c).hid1_size,
          hid2_size |-> HidSizes(c).hid2_size,
          hid3_size |-> HidSizes(c).hid3_size,
          logvar_speed |-> LogvarSpeed(HidSizes(c).hid3_size),
          phi_train_op |-> PhiTrainOp(c)]

\* update's frame before a call
NoFeed == [beta |-> <<0, 1>>, eta |-> 0, lr_hid2 |-> 0,
           lr_multiplier |-> <<0, 1>>, old |-> 0]
NoCall ==
    /\ use_lr_adjust = FALSE
    /\ ada_kl_penalty = FALSE
    /\ feed_dict = NoFeed
    /\ loss = 0 /\ kl = 0 /\ entropy = 0
    /\ i = 0 /\ j = 0
    /\ exit = "none"
    /\ ret = <<>>
    /\ metrics = <<>>

Configs ==
    [obs_dim : 1..MaxObsDim, act_dim : 1..MaxActDim, kl_targ : KlTargs,
     hid1_mult : 1..MaxHid1Mult, epochs : 1..MaxEpochs,
     phi_epochs : 1..MaxPhiEpochs, policy_size : PolicySizes,
     c_ph : CPhs, phi_obj : PhiObjs]

\* Policy.__init__: the fields, then _build_graph and _init_session
Construct ==
    /\ pc = "new"
    /\ beta' = <<1, 1>>
    /\ eta' = 50
    /\ kl_targ' = cfg.kl_targ
    /\ lr_multiplier' = <<1, 1>>
    /\ graph' = BuildGraph(cfg)
    /\ pc' = IF BuildGraph(cfg).raised THEN "failed" ELSE "ready"
    /\ UNCHANGED <<cfg, policy_nn_vars, phi_nn_vars, surr>>
    /\ UNCHANGED callVars

\* ------------------------------------------------------------------ update

\* a bug: the phi epochs run whatever c_ph is
RunsPhiAlways(c) == TRUE

\* line 363: whether update trains phi
RunsPhi(c) == c.c_ph = 1

\* lines 350-361: feed_dict, the old-policy snapshot, the locals
StartUpdate(u, a) ==
    /\ pc = "ready"
    /\ use_lr_adjust' = u
    /\ ada_kl_penalty' = a
    /\ feed_dict' = [beta |-> beta, eta |-> eta,
                     lr_hid2 |-> graph.hid2_size,
                     lr_multiplier |-> lr_multiplier,
                     old |-> policy_nn_vars]
    /\ loss' = 0 /\ kl' = 0 /\ entropy' = 0
    /\ i' = 0 /\ j' = 0
    /\ exit' = "none"
    /\ ret' = <<>>
    /\ metrics' = <<>>
    /\ pc' = IF RunsPhi(cfg) THEN "phi" ELSE "policy"
    /\ UNCHANGED <<cfg, graph, policy_nn_vars, phi_nn_vars, surr>>
    /\ UNCHANGED selfVars

\* lines 367-369: one epoch of self.phi_train_op
PhiStep ==
    /\ pc = "phi"
    /\ j < cfg.phi_epochs
    /\ \E p \in ParamVals :
         phi_nn_vars' = IF graph.phi_train_op = "minimize" THEN p ELSE phi_nn_vars
    /\ j' = j + 1
    /\ pc' = IF j + 1 = cfg.phi_epochs THEN "policy" ELSE "phi"
    /\ UNCHANGED <<cfg, graph, policy_nn_vars, surr>>
    /\ UNCHANGED selfVars
    /\ UNCHANGED <<use_lr_adjust, ada_kl_penalty, feed_dict, loss, kl, entropy,
                   i, exit, ret, metrics>>

\* a bug: the break is missing
DivergedNever(k) == FALSE

\* a bug: the guard compares with 8 * kl_targ
DivergedLoose(k) == k > kl_targ * 8

\* line 378: early stopping if D_KL diverges badly
Diverged(k) == k > kl_targ * 4

\* lines 375-379: one epoch of self.train_op, and the measurement after it
PolicyStep ==
    /\ pc = "policy"
    /\ i < cfg.epochs
    /\ \E p \in ParamVals : policy_nn_vars' = p
    /\ \E m \in Measurements :
         /\ loss' = m[1] /\ kl' = m[2] /\ entropy' = m[3]
         /\ IF Diverged(m[2])
            THEN exit' = "break" /\ pc' = "adapt"
            ELSE IF i + 1 = cfg.epochs
                 THEN exit' = "exhausted" /\ pc' = "adapt"
                 ELSE exit' = "none" /\ pc' = "policy"
    /\ i' = i + 1
    /\ UNCHANGED <<cfg, graph, phi_nn_vars, surr>>
    /\ UNCHANGED selfVars
    /\ UNCHANGED <<use_lr_adjust, ada_kl_penalty, feed_dict, j, ret, metrics>>

\* line 383
BetaUp(b) == FMin(<<35, 1>>, FMul(<<3, 2>>, b))
\* line 388
BetaDown(b) == FMax(<<1, 35>>, FDiv(b, <<3, 2>>))
\* line 382
KlHigh(k) == k > kl_targ * 2
\* a bug: <= for <
KlLowInclusive(k) == FLeq(<<k, 1>>, FDiv(<<kl_targ, 1>>, <<2, 1>>))

\* line 387: kl < self.kl_targ / 2
KlLow(k) == FLess(<<k, 1>>, FDiv(<<kl_targ, 1>>, <<2, 1>>))
\* a bug: lr_multiplier shrinks without the test that it is above 0.1
LrShrinksNoFloor(b, m) == FLess(<<30, 1>>, b)

\* line 385
LrShrinks(b, m) == FLess(<<30, 1>>, b) /\ FLess(<<1, 10>>, m)
\* line 390
LrGrows(b, m) == FLess(b, <<1, 30>>) /\ FLess(m, <<10, 1>>)

\* lines 381-391: self.beta after the adaptation
NewBeta(b, k, a) ==
    IF a /\ KlHigh(k) THEN BetaUp(b)
    ELSE IF a /\ KlLow(k) THEN BetaDown(b)
    ELSE b

\* a bug: lr_multiplier adapts whatever use_lr_adjust is
NewLrMultiplierAlways(m, b, k, a, u) ==
    IF a /\ KlHigh(k)
    THEN IF LrShrinks(b, m) THEN FDiv(m, <<3, 2>>) ELSE m
    ELSE IF a /\ KlLow(k)
    THEN IF LrGrows(b, m) THEN FMul(m, <<3, 2>>) ELSE m
    ELSE m

\* lines 381-391: self.lr_multiplier after the adaptation (b is the new beta)
NewLrMultiplier(m, b, k, a, u) ==
    IF a /\ KlHigh(k)
    THEN IF u /\ LrShrinks(b, m) THEN FDiv(m, <<3, 2>>) ELSE m
    ELSE IF a /\ KlLow(k)
    THEN IF u /\ LrGrows(b, m) THEN FMul(m, <<3, 2>>) ELSE m
    ELSE m

\* a bug: loss and entropy change places
MetricsSwapped(l, e, k, b, m) ==
    [PolicyLoss |-> e, PolicyEntropy |-> l, KL |-> k, Beta |-> b,
     lr_multiplier |-> m]

\* lines 393-398: what goes to logger.record_dicts
Metrics(l, e, k, b, m) ==
    [PolicyLoss |-> l, PolicyEntropy |-> e, KL |-> k, Beta |-> b,
     lr_multiplier |-> m]

\* what update returns: it has no return statement
Returned(l, k, e) == <<>>

\* lines 381-398: the adaptation of beta and lr_multiplier, the metrics, the return
Adapt ==
    /\ pc = "adapt"
    /\ beta' = NewBeta(beta, kl, ada_kl_penalty)
    /\ lr_multiplier' = NewLrMultiplier(lr_multiplier, beta', kl,
                                        ada_kl_penalty, use_lr_adjust)
    /\ metrics' = <<Metrics(loss, entropy, kl, beta', lr_multiplier')>>
    /\ ret' = Returned(loss, kl, entropy)
    /\ pc' = "done"
    /\ UNCHANGED <<cfg, graph, policy_nn_vars, phi_nn_vars, eta, kl_targ, surr>>
    /\ UNCHANGED <<use_lr_adjust, ada_kl_penalty, feed_dict, loss, kl, entropy,
                   i, j, exit>>

\* the caller has the result; update's frame is gone
Return ==
    /\ pc = "done"
    /\ pc' = "ready"
    /\ use_lr_adjust' = FALSE
    /\ ada_kl_penalty' = FALSE
    /\ feed_dict' = NoFeed
    /\ loss' = 0 /\ kl' = 0 /\ entropy' = 0
    /\ i' = 0 /\ j' = 0
    /\ exit' = "none"
    /\ ret' = <<>>
    /\ metrics' = <<>>
    /\ UNCHANGED <<cfg, graph, policy_nn_vars, phi_nn_vars, surr>>
    /\ UNCHANGED selfVars

\* ---------------------------------------------------------- surrogate loss

\* tf.exp on the log-variances the model draws, in thousandths
ExpMilli(x) ==
    CASE x = -1 -> 368
      [] x = 0 -> 1000
      [] x = 1 -> 2718
      [] x = 2 -> 7389

RECURSIVE SumSeq(_)
SumSeq(t) == IF t = <<>> THEN 0 ELSE Head(t) + SumSeq(Tail(t))

\* tf.reduce_mean of a tensor given as the sequence of its elements
ReduceMean(t) == Frac(SumSeq(t), Len(t))

FAdd(q, r) == Frac(q[1] * r[2] + r[1] * q[2], q[2] * r[2])
FNeg(q) == <<-q[1], q[2]>>

\* a bug: the coefficient multiplies log_vars, not tf.exp(log_vars)
Loss1LogVarsLinear(log_vars_inner, log_vars) ==
    FNeg(ReduceMean([n \in 1..Len(log_vars_inner) |->
                        log_vars_inner[n] * (1000 * log_vars)]))

\* lines 258-260: loss1_log_vars, in thousandths (act_dim = 1: log_vars is
\* broadcast over the batch)
Loss1LogVars(log_vars_inner, log_vars) ==
    FNeg(ReduceMean([n \in 1..Len(log_vars_inner) |->
                        log_vars_inner[n] * ExpMilli(log_vars)]))

\* lines 262-264: loss1_mean, in thousandths
Loss1Mean(means_inner, means) ==
    FNeg(ReduceMean([n \in 1..Len(means_inner) |->
                        means_inner[n] * (1000 * means[n])]))

\* line 266
Loss1(t) ==
    FAdd(Loss1LogVars(t.log_vars_inner, t.log_vars),
         Loss1Mean(t.means_inner, t.means))

\* no surrogate loss evaluated
NoSurr == [evaluated |-> FALSE, log_vars_inner |-> <<>>, means_inner |-> <<>>,
           log_vars |-> 0, means |-> <<>>, loss1 |-> <<0, 1>>]

\* a batch of BatchN samples, act_dim = 1
BatchN == 2
InnerVals == {-1, 0, 2}
LogVarVals == {-1, 0, 1, 2}
MeanVals == {-1, 1}
Tensors == [1..BatchN -> InnerVals]
MeanTensors == [1..BatchN -> MeanVals]

\* one evaluation of loss1 on the tensors of the state
EvalLoss1 ==
    /\ ~surr.evaluated
    /\ surr.log_vars_inner # <<>>
    /\ surr' = [surr EXCEPT !.evaluated = TRUE, !.loss1 = Loss1(surr)]
    /\ UNCHANGED <<pc, cfg, graph, policy_nn_vars, phi_nn_vars>>
    /\ UNCHANGED selfVars
    /\ UNCHANGED callVars

\* an optimisation step moved the policy's outputs; the detached
\* coefficients are as they were
MoveOutputs ==
    /\ surr.evaluated
    /\ \E lv \in LogVarVals, mu \in MeanTensors :
         /\ <<lv, mu>> # <<surr.log_vars, surr.means>>
         /\ surr' = [surr EXCEPT !.evaluated = FALSE, !.log_vars = lv,
                                 !.means = mu]
    /\ UNCHANGED <<pc, cfg, graph, policy_nn_vars, phi_nn_vars>>
    /\ UNCHANGED selfVars
    /\ UNCHANGED callVars

\* ---------------------------------------------------------- specifications

\* the configurations the training runs are modelled with: one per c_ph and
\* epochs
RunConfigs ==
    {c \in Configs : /\ c.obs_dim = 1 /\ c.act_dim = 1 /\ c.hid1_mult = 1
                     /\ c.policy_size = "large" /\ c.phi_obj = "MinVar"
                     /\ c.phi_epochs = MaxPhiEpochs}

\* a freshly constructed Policy
Init ==
    /\ cfg \in RunConfigs
    /\ pc = "ready"
    /\ beta = <<1, 1>>
    /\ eta = 50
    /\ kl_targ = cfg.kl_targ
    /\ lr_multiplier = <<1, 1>>
    /\ graph = BuildGraph(cfg)
    /\ policy_nn_vars = 0
    /\ phi_nn_vars = 0
    /\ NoCall
    /\ surr = NoSurr

Next ==
    \/ \E u \in BOOLEAN, a \in BOOLEAN : StartUpdate(u, a)
    \/ PhiStep
    \/ PolicyStep
    \/ Adapt
    \/ Return

Spec == Init /\ [][Next]_vars

\* construction: a Policy about to be constructed with any arguments, and the
\* calls of update that follow, here without the adaptive KL penalty
InitBuild ==
    /\ cfg \in Configs
    /\ pc = "new"
    /\ beta = <<0, 1>>
    /\ eta = 0
    /\ kl_targ = 0
    /\ lr_multiplier = <<0, 1>>
    /\ graph = NoGraph
    /\ policy_nn_vars = 0
    /\ phi_nn_vars = 0
    /\ NoCall
    /\ surr = NoSurr

NextBuild ==
    \/ Construct
    \/ \E u \in BOOLEAN : StartUpdate(u, FALSE)
    \/ PhiStep
    \/ PolicyStep
    \/ Adapt
    \/ Return

SpecBuild == InitBuild /\ [][NextBuild]_vars

\* the surrogate loss as a function of its tensors
InitLoss ==
    /\ cfg \in {c \in RunConfigs : c.c_ph = 1 /\ c.epochs = 1}
    /\ pc = "ready"
    /\ beta = <<1, 1>>
    /\ eta = 50
    /\ kl_targ = cfg.kl_targ
    /\ lr_multiplier = <<1, 1>>
    /\ graph = BuildGraph(cfg)
    /\ policy_nn_vars = 0
    /\ phi_nn_vars = 0
    /\ NoCall
    /\ \E li \in Tensors, mi \in Tensors, lv \in LogVarVals, mu \in MeanTensors :
         surr = [evaluated |-> FALSE, log_vars_inner |-> li, means_inner |-> mi,
                 log_vars |-> lv, means |-> mu, loss1 |-> <<0, 1>>]

NextLoss ==
    \/ EvalLoss1
    \/ MoveOutputs

SpecLoss == InitLoss /\ [][NextLoss]_vars

\* ------------------------------------------------------------------ claims

InCall == pc \in {"phi", "policy", "adapt", "done"}

\* C1, as stated: after every update call with ada_kl_penalty, beta is in
\* [1/35, 35] and lr_multiplier is in [0.1, 10].
C1_LrMultiplierIn01To10 ==
    (pc = "done" /\ ada_kl_penalty) =>
        /\ FLeq(<<1, 35>>, beta) /\ FLeq(beta, <<35, 1>>)
        /\ FLeq(<<1, 10>>, lr_multiplier) /\ FLeq(lr_multiplier, <<10, 1>>)

\* C1, amended: after every update call with ada_kl_penalty, beta is in
\* [1/35, 35] and lr_multiplier is in [0.1/1.5, 10*1.5]: the tests
\* lr_multiplier > 0.1 and lr_multiplier < 10 are made before the step by 1.5.
C1_BetaAndLrMultiplierBounded ==
    (pc = "done" /\ ada_kl_penalty) =>
        /\ FLeq(<<1, 35>>, beta) /\ FLeq(beta, <<35, 1>>)
        /\ FLeq(<<1, 15>>, lr_multiplier) /\ FLeq(lr_multiplier, <<15, 1>>)

\* C1's case: a call with ada_kl_penalty ends with lr_multiplier below 0.1
C1_Witness ==
    /\ pc = "done" /\ ada_kl_penalty /\ use_lr_adjust
    /\ FLess(lr_multiplier, <<1, 10>>)
    /\ FLess(<<1, 10>>, feed_dict.lr_multiplier)

\* C2, as stated: if the KL measured after the last executed policy step
\* exceeds 4*kl_targ, fewer than epochs steps were executed.
C2_DivergedBeforeBudget ==
    (pc \in {"adapt", "done"} /\ kl > 4 * kl_targ) => i < cfg.epochs

\* C2, amended: if the KL measured after the last executed policy step exceeds
\* 4*kl_targ, the loop was left by the early-stop break at that step, after at
\* most epochs steps (exactly epochs when the guard fires on the last one).
C2_DivergedLeftByBreak ==
    (pc \in {"adapt", "done"} /\ kl > 4 * kl_targ) =>
        exit = "break" /\ i >= 1 /\ i <= cfg.epochs

\* C2's case: the guard fires on the last step of the budget
C2_Witness ==
    pc = "done" /\ kl > 4 * kl_targ /\ i = cfg.epochs /\ exit = "break"

\* C3: with c_ph = 0 the control variate's parameters keep their values of
\* construction, and no phi epoch is ever executed.
C3_PhiUntouchedWithoutControlVariate ==
    cfg.c_ph = 0 => phi_nn_vars = 0 /\ j = 0 /\ pc # "phi"

\* C3's case: a call on a Policy with c_ph = 0 whose policy steps changed the
\* policy's parameters
C3_Witness ==
    /\ cfg.c_ph = 0 /\ pc = "done" /\ i = cfg.epochs
    /\ policy_nn_vars # feed_dict.old

\* C4: after an update call with ada_kl_penalty, beta is min(35, 1.5*beta_before)
\* if kl > 2*kl_targ, max(1/35, beta_before/1.5) if kl < kl_targ/2, and
\* beta_before otherwise.
C4_BetaAfterCall ==
    (pc = "done" /\ ada_kl_penalty) =>
        beta = IF kl > 2 * kl_targ
               THEN FMin(<<35, 1>>, FMul(<<3, 2>>, feed_dict.beta))
               ELSE IF 2 * kl < kl_targ
               THEN FMax(<<1, 35>>, FDiv(feed_dict.beta, <<3, 2>>))
               ELSE feed_dict.beta

\* C4's case: beta is clipped at 35
C4_Witness ==
    /\ pc = "done" /\ ada_kl_penalty /\ kl > 2 * kl_targ
    /\ beta = <<35, 1>> /\ FLess(feed_dict.beta, <<35, 1>>)

\* C5, as stated: a policy_size outside {small, large} or a phi_obj outside
\* {FitQ, MinVar} makes construction fail, whatever c_ph is.
C5_UnknownTagFailsConstruction ==
    (cfg.policy_size \notin {"small", "large"}
        \/ cfg.phi_obj \notin {"FitQ", "MinVar"}) => pc \in {"new", "failed"}

\* C5, amended: a policy_size outside {small, large}, or with c_ph = 1 a
\* phi_obj outside {FitQ, MinVar}, makes construction fail, and no update call
\* runs; with c_ph = 0 phi_obj is not looked at.
C5_UsedUnknownTagFailsConstruction ==
    (cfg.policy_size \notin {"small", "large"}
        \/ (cfg.c_ph = 1 /\ cfg.phi_obj \notin {"FitQ", "MinVar"}))
    => pc \in {"new", "failed"}

\* C5's case: construction failed on phi_obj alone
C5_Witness ==
    /\ pc = "failed" /\ cfg.policy_size = "small"
    /\ cfg.c_ph = 1 /\ cfg.phi_obj = "Other"

\* C6, as stated: update returns (loss, kl, entropy) as measured after the last
\* executed policy step.
C6_ReturnsTriple ==
    pc = "done" => ret = <<loss, kl, entropy>>

\* C6, amended: update hands the loss, KL and entropy measured after the last
\* executed policy step to the logger as PolicyLoss, KL and PolicyEntropy, on
\* a full budget and on an early stop alike, and returns nothing.
C6_MetricsCarryLastMeasurement ==
    pc = "done" =>
        /\ Len(metrics) = 1
        /\ metrics[1].PolicyLoss = loss
        /\ metrics[1].KL = kl
        /\ metrics[1].PolicyEntropy = entropy
        /\ ret = <<>>

\* C6's case: a call cut short by the divergence guard has emitted its metrics
C6_Witness ==
    /\ pc = "done" /\ exit = "break" /\ i < cfg.epochs
    /\ Len(metrics) = 1 /\ metrics[1].KL = 9 /\ metrics[1].PolicyLoss = 3

\* C7: the number of log-variance rows is max(1, floor(10 * hid3_size / 48)),
\* with hid3_size = act_dim for "small" and 10 * act_dim for "large".
C7_LogvarRowsAtLeastOne ==
    pc = "ready" =>
        LET hid3 == IF cfg.policy_size = "small" THEN cfg.act_dim
                    ELSE 10 * cfg.act_dim
            rows == (10 * hid3) \div 48
        IN graph.logvar_speed = IF rows < 1 THEN 1 ELSE rows

\* C8: a call executes at most epochs policy steps; a step is executed only
\* if no step before it measured a KL above 4*kl_targ; a loop that ends
\* without such a measurement has executed exactly epochs steps; and the
\* old-policy snapshot does not change during the call.
C8_EpochLoop ==
    /\ [](/\ i <= cfg.epochs
          /\ (pc = "policy" /\ i > 0) => kl <= 4 * kl_targ
          /\ (pc \in {"adapt", "done"} /\ kl <= 4 * kl_targ) => i = cfg.epochs)
    /\ [][/\ (InCall /\ InCall') => feed_dict'.old = feed_dict.old
          /\ i' # i => (i' = 0 \/ (i' = i + 1 /\ pc = "policy"))]_vars

\* C8's case: the guard cut a call short
C8_Witness ==
    pc = "adapt" /\ exit = "break" /\ i < cfg.epochs /\ kl > 4 * kl_targ

\* C9: a call without ada_kl_penalty leaves beta and lr_multiplier as they
\* were, a call without use_lr_adjust leaves lr_multiplier as it was, eta and
\* kl_targ never change, and beta and lr_multiplier keep their values of the
\* call's start (those in feed_dict) until the policy loop has ended.
C9_TrustRegionFrame ==
    /\ eta = 50
    /\ kl_targ = cfg.kl_targ
    /\ pc \in {"phi", "policy", "adapt"} =>
          /\ beta = feed_dict.beta
          /\ lr_multiplier = feed_dict.lr_multiplier
          /\ feed_dict.lr_hid2 = graph.hid2_size
    /\ (pc = "done" /\ ~ada_kl_penalty) =>
          beta = feed_dict.beta /\ lr_multiplier = feed_dict.lr_multiplier
    /\ (pc = "done" /\ ~use_lr_adjust) =>
          lr_multiplier = feed_dict.lr_multiplier

\* C9's case: a call without use_lr_adjust that raised beta to 35, where
\* lr_multiplier would otherwise shrink
C9_Witness ==
    /\ pc = "done" /\ ada_kl_penalty /\ ~use_lr_adjust
    /\ kl > 2 * kl_targ /\ beta = <<35, 1>>
    /\ FLess(<<1, 10>>, lr_multiplier)

\* the sum over the batch of c[n] * x[n]
Dot(c, x) == SumSeq([n \in 1..Len(c) |-> c[n] * x[n]])

\* C10, as stated: loss1 = -mean(inner_log_var * log_var) - mean(inner_mean * mean)
\* (in thousandths).
C10_Loss1LinearInLogVar ==
    surr.evaluated =>
        surr.loss1[1] * Len(surr.means) =
            -(SumSeq(surr.log_vars_inner) * (1000 * surr.log_vars)
              + 1000 * Dot(surr.means_inner, surr.means)) * surr.loss1[2]

\* C10, amended: loss1 = -mean(inner_log_var * exp(log_var)) - mean(inner_mean * mean):
\* the log-variance channel's coefficient multiplies the variance exp(log_var)
\* (in thousandths).
C10_Loss1LinearInVariance ==
    surr.evaluated =>
        surr.loss1[1] * Len(surr.means) =
            -(SumSeq(surr.log_vars_inner) * ExpMilli(surr.log_vars)
              + 1000 * Dot(surr.means_inner, surr.means)) * surr.loss1[2]

\* C10's case: loss1 evaluated with a nonzero log-variance coefficient at a
\* log-variance that is not 0
C10_Witness ==
    /\ surr.evaluated /\ surr.log_vars = 2
    /\ SumSeq(surr.log_vars_inner) # 0 /\ surr.loss1[1] # 0

====
